---- MODULE Spec2Model ----
(***************************************************************************)
(* A model of the TPP monitoring data engine: scripts/tpp_utils.py         *)
(* (DataValidator, DataProcessor, SyntheticDataGenerator) and              *)
(* scripts/analyze_data.py (analyze_data).  DataFrames live in a heap of   *)
(* objects so that aliasing (a callee writing into the caller's frame) is  *)
(* observable; numpy's global generator is state, so that what a call      *)
(* draws depends on the calls before it.                                   *)
(***************************************************************************)
EXTENDS Integers, Sequences, FiniteSets, TLC

VARIABLES
    record,     \* the dict last handed to validate_record
    vres,       \* what validate_record returned for it
    heap,       \* DataFrame objects by reference: ref -> frame
    dfres,      \* result of the last frame operation (validation / analysis / stage)
    calls,      \* log of the stage and generator calls made so far
    rng         \* the state of numpy's global random number generator

vars == <<record, vres, heap, dfres, calls, rng>>

(***************************************************************************)
(* Bounds of the model.                                                    *)
(***************************************************************************)
MaxRows == 2        \* rows of a frame handed to the validator
MaxCalls == 2       \* stage calls made in the stages and pipeline specifications
MaxPipeRows == 2    \* rows of the base batch in the pipeline specification
MaxBatch == 6       \* rows of a batch of varying heart rates handed to analyze_data
MaxActRows == 4     \* rows of a batch of varying activities handed to analyze_data
MaxChangeRows == 3  \* rows of a batch handed to detect_rapid_changes
MaxRollRows == 3    \* rows of a batch handed to calculate_rolling_stats
MaxWindow == 3      \* largest window handed to calculate_rolling_stats
MaxDays == 2        \* days from 2024-01-01 whose instants the model writes and parses as text
MaxGenRecords == 2  \* records asked of generate_daily_pattern
MaxDuration == 125  \* minutes asked of generate_tpp_episode
MaxHalfSigmas == 13 \* half standard deviations a normal draw lies from its mean

(***************************************************************************)
(* Values.  Python values are tagged so that type tests (isinstance) and   *)
(* comparisons are modelled: a number, a string, None, or a float NaN.     *)
(* An instant is the number of minutes since 2024-01-01T00:00, a Monday.   *)
(***************************************************************************)
Num(n) == [kind |-> "num", n |-> n, d |-> 1, s |-> ""]
Str(s) == [kind |-> "str", n |-> 0, d |-> 1, s |-> s]
None == [kind |-> "none", n |-> 0, d |-> 1, s |-> ""]
NaN == [kind |-> "nan", n |-> 0, d |-> 1, s |-> ""]
\* floats that are not integers: the fraction n/d, and the square root of n/d
Rat(n, d) == [kind |-> "rat", n |-> n, d |-> d, s |-> ""]
Sqrt(n, d) == [kind |-> "sqrt", n |-> n, d |-> d, s |-> ""]

\* isinstance(v, (int, float)): NaN is a float
IsNumber(v) == v.kind \in {"num", "nan"}

\* Python's v < k and v > k on a number: every comparison with NaN is False
Lt(v, k) == v.kind = "num" /\ v.n < k
Gt(v, k) == v.kind = "num" /\ v.n > k

\* datetime.isoformat() of an instant with no seconds: "2024-01-DDTHH:MM:00"
TwoDigits(n) == IF n < 10 THEN "0" \o ToString(n) ELSE ToString(n)
isoformat(t) ==
    "2024-01-" \o TwoDigits(1 + t \div 1440) \o "T" \o TwoDigits((t \div 60) % 24)
        \o ":" \o TwoDigits(t % 60) \o ":00"

\* pd.to_datetime(v) does not raise: instants, None/NaN (-> NaT) and well-formed strings
Instants == 0..(MaxDays * 1440 - 1)
ISO_STRINGS == {isoformat(t) : t \in Instants}
to_datetime_ok(v) == v.kind \in {"num", "none", "nan"} \/ (v.kind = "str" /\ v.s \in ISO_STRINGS)

(***************************************************************************)
(* numpy's global generator (np.random).  It is a deterministic machine:   *)
(* every draw returns a value decided by the state and moves to the next   *)
(* state, and np.random.seed(s) sets the state from s.  The output         *)
(* function is left open: `tape` is any function from the states to raw    *)
(* draws, fixed for a run; `pos` is the state.                             *)
(***************************************************************************)
Draws == {0, 1, 2}
Rng(tape, pos) == [tape |-> tape, pos |-> pos]
\* the generator in the specifications that draw nothing
Unseeded == Rng(<<0>>, 0)

\* the raw value of the next draw, and the generator after it
Draw(g) == g.tape[g.pos + 1]
Advance(g) == Rng(g.tape, (g.pos + 1) % Len(g.tape))


(***************************************************************************)
REQUIRED_FIELDS == <<"timestamp", "heartRate", "hrv", "activity">>
VALID_ACTIVITIES == {"resting", "walking", "exercise", "sleeping"}
HR_LOW == 30
HR_HIGH == 220
TEMP_LOW == 30
TEMP_HIGH == 45

RequiredSet == {REQUIRED_FIELDS[i] : i \in 1..Len(REQUIRED_FIELDS)}

Valid == [valid |-> TRUE, code |-> "", field |-> ""]
Invalid(code, field) == [valid |-> FALSE, code |-> code, field |-> field]

\* for field in REQUIRED_FIELDS: if field not in record: return ...  -- the first one missing
FirstMissing(present) ==
    LET miss == {i \in 1..Len(REQUIRED_FIELDS) : REQUIRED_FIELDS[i] \notin present}
    IN  IF miss = {} THEN 0 ELSE CHOOSE i \in miss : \A j \in miss : i <= j

\* a faulty variant: the value checks run before the required-field check of the later fields
validate_record_ValueFirst(rec) ==
    IF "heartRate" \in DOMAIN rec
         /\ (~IsNumber(rec["heartRate"]) \/ Lt(rec["heartRate"], HR_LOW) \/ Gt(rec["heartRate"], HR_HIGH))
    THEN Invalid("Heart rate out of valid range (30-220)", "heartRate")
    ELSE IF FirstMissing(DOMAIN rec) # 0
    THEN Invalid("Missing required field", REQUIRED_FIELDS[FirstMissing(DOMAIN rec)])
    ELSE Valid

validate_record(rec) ==
    IF FirstMissing(DOMAIN rec) # 0
    THEN Invalid("Missing required field", REQUIRED_FIELDS[FirstMissing(DOMAIN rec)])
    ELSE IF ~to_datetime_ok(rec["timestamp"])
    THEN Invalid("Invalid timestamp", "timestamp")
    ELSE IF ~IsNumber(rec["heartRate"]) \/ Lt(rec["heartRate"], HR_LOW) \/ Gt(rec["heartRate"], HR_HIGH)
    THEN Invalid("Heart rate out of valid range (30-220)", "heartRate")
    ELSE IF ~IsNumber(rec["hrv"]) \/ Lt(rec["hrv"], 0)
    THEN Invalid("Invalid HRV value", "hrv")
    ELSE IF ~(rec["activity"].kind = "str" /\ rec["activity"].s \in VALID_ACTIVITIES)
    THEN Invalid("Invalid activity", "activity")
    ELSE IF "temperature" \in DOMAIN rec
              /\ rec["temperature"].kind # "none"
              /\ (~IsNumber(rec["temperature"]) \/ Lt(rec["temperature"], TEMP_LOW)
                    \/ Gt(rec["temperature"], TEMP_HIGH))
    THEN Invalid("Temperature out of valid range (30-45)", "temperature")
    ELSE Valid

(***************************************************************************)
(* DataFrames: column names, row labels (the index) and rows, each row a   *)
(* function from the column names to values.                               *)
(***************************************************************************)
Frame(columns, index, rows) == [columns |-> columns, index |-> index, rows |-> rows]

ColumnSet(df) == {df.columns[i] : i \in 1..Len(df.columns)}
NRows(df) == Len(df.rows)

\* pd.DataFrame(data) / pd.read_csv(path): a fresh RangeIndex 0..n-1
RangeIndex(n) == [i \in 1..n |-> i - 1]

\* df[mask]: the rows whose mask is true, in order, each keeping its label
Positions(mask) == {i \in DOMAIN mask : mask[i]}
RECURSIVE Ascending(_)
Ascending(S) ==
    IF S = {} THEN <<>>
    ELSE LET m == CHOOSE x \in S : \A y \in S : x <= y
         IN  <<m>> \o Ascending(S \ {m})
Take(df, order) ==
    Frame(df.columns, [k \in 1..Len(order) |-> df.index[order[k]]],
                      [k \in 1..Len(order) |-> df.rows[order[k]]])
BoolFilter(df, mask) == Take(df, Ascending(Positions(mask)))

\* df.sort_values('timestamp'): rows in ascending timestamp order, each keeping its
\* label.  The default sort (quicksort) is not stable: any order of equal
\* timestamps is an outcome, so the orders are a set.
Perms(n) == {p \in [1..n -> 1..n] : \A i, j \in 1..n : i # j => p[i] # p[j]}
SortOrders(df) ==
    {p \in Perms(NRows(df)) :
        \A k \in 1..(NRows(df) - 1) :
            df.rows[p[k]]["timestamp"].n <= df.rows[p[k + 1]]["timestamp"].n}
Sortable(df) == \A i \in 1..NRows(df) : df.rows[i]["timestamp"].kind = "num"
sort_values(df, order) == Take(df, order)

SchemaError(field) ==
    [row |-> -1, code |-> "Missing required column", field |-> field]
RowError(idx, res) == [row |-> idx, code |-> res.code, field |-> res.field]

\* a faulty variant: the schema check stops at the first missing column
MissingColumns_FirstOnly(df) ==
    LET all == SelectSeq(REQUIRED_FIELDS, LAMBDA f : f \notin ColumnSet(df))
    IN  IF all = <<>> THEN <<>> ELSE <<SchemaError(all[1])>>

\* for field in REQUIRED_FIELDS: if field not in df.columns: errors.append(...)
MissingColumns(df) ==
    LET all == SelectSeq(REQUIRED_FIELDS, LAMBDA f : f \notin ColumnSet(df))
    IN  [k \in 1..Len(all) |-> SchemaError(all[k])]

\* for idx, row in df.iterrows(): validate_record(row.to_dict()); "Row {idx}: {error}"
RowErrors(df) ==
    LET each == [i \in 1..NRows(df) |-> RowError(df.index[i], validate_record(df.rows[i]))]
        bad  == [i \in 1..NRows(df) |-> ~validate_record(df.rows[i]).valid]
    IN  [k \in 1..Cardinality(Positions(bad)) |-> each[Ascending(Positions(bad))[k]]]

validate_dataframe(df) ==
    IF MissingColumns(df) # <<>>
    THEN [valid |-> FALSE, errors |-> MissingColumns(df)]
    ELSE [valid |-> RowErrors(df) = <<>>, errors |-> RowErrors(df)]

(***************************************************************************)
(* Inputs of the validator specification.                                  *)
(***************************************************************************)
Absent == [kind |-> "absent", n |-> 0, d |-> 1, s |-> ""]
Strip(r) == [k \in {k \in DOMAIN r : r[k] # Absent} |-> r[k]]

RecordInputs ==
    {Strip(r) : r \in [timestamp : {Absent, Num(1), Str("bad")},
                       heartRate : {Absent, Num(29), Num(30), Num(220), Num(221)},
                       hrv : {Absent, Num(-1), Num(0)},
                       activity : {Absent, Str("resting"), Str("Resting")},
                       temperature : {Absent, None, Num(29), Num(37)}]}

CellInputs(col) ==
    CASE col = "timestamp" -> {Num(1), Num(2), Str("bad")}
      [] col = "heartRate" -> {Num(70), Num(221)}
      [] col = "hrv" -> {Num(50)}
      [] col = "activity" -> {Str("resting"), Str("running")}

ColumnInputs ==
    {SelectSeq(REQUIRED_FIELDS, LAMBDA f : f \in S) : S \in SUBSET RequiredSet}

\* the frame of n rows with the given columns, row i holding cells[c][i] in column c
BuildFrame(cols, n, cells) ==
    Frame(cols, RangeIndex(n), [i \in 1..n |-> [c \in {cols[k] : k \in 1..Len(cols)} |-> cells[c][i]]])

NoResult == [op |-> "none"]
NotCalled == [called |-> FALSE, res |-> Valid]

(***************************************************************************)
(* The record specification: validate_record applied to any input record.  *)
(***************************************************************************)
InitRecord ==
    /\ record \in RecordInputs
    /\ vres = NotCalled
    /\ heap = <<>>
    /\ dfres = NoResult
    /\ calls = <<>>
    /\ rng = Unseeded

ValidateRecord ==
    /\ ~vres.called
    /\ vres' = [called |-> TRUE, res |-> validate_record(record)]
    /\ UNCHANGED <<rng, record, heap, dfres, calls>>

NextRecord == ValidateRecord

SpecRecord == InitRecord /\ [][NextRecord]_vars

(***************************************************************************)
(* The frame specification: a frame is loaded, possibly filtered or        *)
(* re-ordered by the caller, and validated.                                *)
(***************************************************************************)
InitFrame ==
    /\ record = Strip([timestamp |-> Absent])
    /\ vres = NotCalled
    /\ \E cols \in ColumnInputs : \E n \in 0..MaxRows :
        \E cells \in [timestamp : [1..n -> CellInputs("timestamp")],
                      heartRate : [1..n -> CellInputs("heartRate")],
                      hrv : [1..n -> CellInputs("hrv")],
                      activity : [1..n -> CellInputs("activity")]] :
            heap = <<BuildFrame(cols, n, cells)>>
    /\ dfres = NoResult
    /\ calls = <<>>
    /\ rng = Unseeded

\* the caller keeps a subset of the rows: df = df[mask]
FilterFrame ==
    /\ dfres = NoResult
    /\ \E mask \in [1..NRows(heap[1]) -> BOOLEAN] :
        /\ \E i \in DOMAIN mask : ~mask[i]
        /\ heap' = <<BoolFilter(heap[1], mask)>>
    /\ UNCHANGED <<rng, record, vres, dfres, calls>>

\* the caller orders the rows by timestamp: df = df.sort_values('timestamp')
SortFrame ==
    /\ dfres = NoResult
    /\ "timestamp" \in ColumnSet(heap[1])
    /\ Sortable(heap[1])
    /\ \E p \in SortOrders(heap[1]) : heap' = <<sort_values(heap[1], p)>>
    /\ UNCHANGED <<rng, record, vres, dfres, calls>>

ValidateDataframe ==
    /\ dfres = NoResult
    /\ dfres' = [op |-> "validate_dataframe"] @@ validate_dataframe(heap[1])
    /\ UNCHANGED <<rng, record, vres, heap, calls>>

NextFrame ==
    \/ FilterFrame
    \/ SortFrame
    \/ ValidateDataframe

SpecFrame == InitFrame /\ [][NextFrame]_vars

(***************************************************************************)
(* DataProcessor.  A stage works on an environment: the heap of DataFrame  *)
(* objects and the reference its local variable df is bound to.            *)
(***************************************************************************)
Env(h, ref) == [heap |-> h, ref |-> ref]

\* a faulty variant: no copy is taken, df stays bound to the caller's object
DataFrameCopy_Alias(e) == e

\* df = df.copy(): a new object with the same content
DataFrameCopy(e) == Env(Append(e.heap, e.heap[e.ref]), Len(e.heap) + 1)

\* df = df.sort_values('timestamp'): a new object, the rows in the given order
SortValues(e, order) == Env(Append(e.heap, sort_values(e.heap[e.ref], order)), Len(e.heap) + 1)

WithColumn(df, col, vals) ==
    Frame(IF col \in ColumnSet(df) THEN df.columns ELSE Append(df.columns, col),
          df.index,
          [i \in 1..NRows(df) |-> (col :> vals[i]) @@ df.rows[i]])

\* df[col] = vals: writes into the object df is bound to
Assign(e, col, vals) == Env([e.heap EXCEPT ![e.ref] = WithColumn(@, col, vals)], e.ref)

Column(e, col) == [i \in 1..NRows(e.heap[e.ref]) |-> e.heap[e.ref].rows[i][col]]

\* return df: the objects the call allocated and no longer references are dropped,
\* so the caller's heap grows by the returned object only
Return(e, h0) ==
    IF e.ref > Len(h0)
    THEN Env(Append(SubSeq(e.heap, 1, Len(h0)), e.heap[e.ref]), Len(h0) + 1)
    ELSE Env(SubSeq(e.heap, 1, Len(h0)), e.ref)

\* pd.to_datetime on a column value: a well-formed string is parsed to its instant
to_datetime(v) == IF v.kind = "str" THEN Num(CHOOSE t \in Instants : isoformat(t) = v.s) ELSE v

\* .dt.hour, .dt.dayofweek (Monday = 0)
Hour(v) == Num((v.n \div 60) % 24)
DayOfWeek(v) == Num((v.n \div 1440) % 7)
AsInt(b) == Num(IF b THEN 1 ELSE 0)

TIME_FEATURES == {"hour", "day_of_week", "is_night", "is_weekend"}
NIGHT_FROM == 22
NIGHT_UNTIL == 6
WEEKEND_FROM == 5

add_time_features(h, ref) ==
    LET e0 == DataFrameCopy(Env(h, ref))
        e1 == Assign(e0, "timestamp", [i \in DOMAIN Column(e0, "timestamp") |->
                                            to_datetime(Column(e0, "timestamp")[i])])
        e2 == Assign(e1, "hour", [i \in DOMAIN Column(e1, "timestamp") |->
                                            Hour(Column(e1, "timestamp")[i])])
        e3 == Assign(e2, "day_of_week", [i \in DOMAIN Column(e2, "timestamp") |->
                                            DayOfWeek(Column(e2, "timestamp")[i])])
        e4 == Assign(e3, "is_night", [i \in DOMAIN Column(e3, "hour") |->
                    AsInt(Column(e3, "hour")[i].n >= NIGHT_FROM \/ Column(e3, "hour")[i].n <= NIGHT_UNTIL)])
        e5 == Assign(e4, "is_weekend", [i \in DOMAIN Column(e4, "day_of_week") |->
                    AsInt(Column(e4, "day_of_week")[i].n >= WEEKEND_FROM)])
    IN  Return(e5, h)

\* the sum of x[lo..hi] and of its squares
RECURSIVE SumRange(_, _, _)
SumRange(x, lo, hi) == IF lo > hi THEN 0 ELSE x[lo].n + SumRange(x, lo + 1, hi)
RECURSIVE SumSqRange(_, _, _)
SumSqRange(x, lo, hi) == IF lo > hi THEN 0 ELSE x[lo].n * x[lo].n + SumSqRange(x, lo + 1, hi)

\* the mean of n values with sum S; the standard deviation with ddof degrees of
\* freedom of n values with sum S and sum of squares Q: sqrt((n*Q - S^2)/(n*(n-ddof)))
Mean(S, n) == IF n = 0 THEN NaN ELSE Rat(S, n)
Std(S, Q, n, ddof) == IF n - ddof <= 0 THEN NaN ELSE Sqrt(n * Q - S * S, n * (n - ddof))

\* a faulty variant: the window reaches one record further back
WindowStart_OneMore(i, window) == IF i - window < 1 THEN 1 ELSE i - window

\* the first row of the trailing window at row i
WindowStart(i, window) == IF i - window + 1 < 1 THEN 1 ELSE i - window + 1

\* series.rolling(window=window, min_periods=1).mean() / .std()
RollingMean(x, window) ==
    [i \in DOMAIN x |-> Mean(SumRange(x, WindowStart(i, window), i), i - WindowStart(i, window) + 1)]
RollingStd(x, window) ==
    [i \in DOMAIN x |-> Std(SumRange(x, WindowStart(i, window), i),
                            SumSqRange(x, WindowStart(i, window), i),
                            i - WindowStart(i, window) + 1, 1)]

ROLLING_COLUMNS == {"hr_rolling_mean", "hrv_rolling_mean", "hr_rolling_std", "hrv_rolling_std"}

calculate_rolling_stats(h, ref, window, order) ==
    LET e0 == DataFrameCopy(Env(h, ref))
        e1 == IF "timestamp" \in ColumnSet(e0.heap[e0.ref]) THEN SortValues(e0, order) ELSE e0
        e2 == Assign(e1, "hr_rolling_mean", RollingMean(Column(e1, "heartRate"), window))
        e3 == Assign(e2, "hrv_rolling_mean", RollingMean(Column(e2, "hrv"), window))
        e4 == Assign(e3, "hr_rolling_std", RollingStd(Column(e3, "heartRate"), window))
        e5 == Assign(e4, "hrv_rolling_std", RollingStd(Column(e4, "hrv"), window))
    IN  Return(e5, h)

Abs(n) == IF n < 0 THEN -n ELSE n

\* series.diff().abs(): undefined (NaN) for the first row
AbsDiff(x) == [i \in DOMAIN x |-> IF i = 1 THEN NaN ELSE Num(Abs(x[i].n - x[i - 1].n))]

CHANGE_COLUMNS == {"hr_change", "rapid_change"}

\* a faulty variant: a change equal to the threshold is flagged too
RapidFlag_Inclusive(change, threshold) == AsInt(change.kind = "num" /\ change.n >= threshold)

\* (df['hr_change'] > threshold).astype(int)
RapidFlag(change, threshold) == AsInt(Gt(change, threshold))

detect_rapid_changes(h, ref, threshold, order) ==
    LET e0 == DataFrameCopy(Env(h, ref))
        e1 == IF "timestamp" \in ColumnSet(e0.heap[e0.ref]) THEN SortValues(e0, order) ELSE e0
        e2 == Assign(e1, "hr_change", AbsDiff(Column(e1, "heartRate")))
        e3 == Assign(e2, "rapid_change", [i \in DOMAIN Column(e2, "hr_change") |->
                                            RapidFlag(Column(e2, "hr_change")[i], threshold)])
    IN  Return(e3, h)

\* the orders sort_values may produce; the identity when there is nothing to sort by
StageOrders(df) ==
    IF "timestamp" \in ColumnSet(df) THEN SortOrders(df) ELSE {[i \in 1..NRows(df) |-> i]}

DEFAULT_WINDOW == 5
DEFAULT_THRESHOLD == 20
ThresholdInputs == {DEFAULT_THRESHOLD, 25}

(***************************************************************************)
(* The stages specification: the three enrichment stages applied, in any   *)
(* order, to the base batch (reference 1) or to each other's results.      *)
(***************************************************************************)
StageCells(col) ==
    CASE col = "timestamp" -> {Num(360), Num(7920)}
      [] col = "heartRate" -> {Num(70)}
      [] col = "hrv" -> {Num(50)}

StageColumns == {<<"timestamp", "heartRate", "hrv">>, <<"heartRate", "hrv">>}

Call(op, arg, res, before) == [op |-> op, arg |-> arg, res |-> res, before |-> before]

InitStages ==
    /\ record = Strip([timestamp |-> Absent])
    /\ vres = NotCalled
    /\ \E cols \in StageColumns : \E n \in 1..MaxPipeRows :
        \E cells \in [timestamp : [1..n -> StageCells("timestamp")],
                      heartRate : [1..n -> StageCells("heartRate")],
                      hrv : [1..n -> StageCells("hrv")]] :
            heap = <<BuildFrame(cols, n, cells)>>
    /\ dfres = NoResult
    /\ calls = <<>>
    /\ rng = Unseeded

AddTimeFeatures ==
    \E ref \in 1..Len(heap) :
        /\ Len(calls) < MaxCalls
        /\ "timestamp" \in ColumnSet(heap[ref])
        /\ LET r == add_time_features(heap, ref)
           IN  /\ heap' = r.heap
               /\ calls' = Append(calls, Call("add_time_features", ref, r.ref, heap[ref]))
        /\ UNCHANGED <<rng, record, vres, dfres>>

CalculateRollingStats ==
    \E ref \in 1..Len(heap) : \E order \in StageOrders(heap[ref]) :
        /\ Len(calls) < MaxCalls
        /\ LET r == calculate_rolling_stats(heap, ref, DEFAULT_WINDOW, order)
           IN  /\ heap' = r.heap
               /\ calls' = Append(calls, Call("calculate_rolling_stats", ref, r.ref, heap[ref]))
        /\ UNCHANGED <<rng, record, vres, dfres>>

DetectRapidChanges ==
    \E ref \in 1..Len(heap) : \E order \in StageOrders(heap[ref]) :
        /\ Len(calls) < MaxCalls
        /\ LET r == detect_rapid_changes(heap, ref, DEFAULT_THRESHOLD, order)
           IN  /\ heap' = r.heap
               /\ calls' = Append(calls, Call("detect_rapid_changes", ref, r.ref, heap[ref]))
        /\ UNCHANGED <<rng, record, vres, dfres>>

\* out = detect_rapid_changes(df, threshold) on the batch just loaded
DetectBatch ==
    \E threshold \in ThresholdInputs : \E order \in StageOrders(heap[1]) :
        /\ calls = <<>>
        /\ LET r == detect_rapid_changes(heap, 1, threshold, order)
           IN  /\ heap' = r.heap
               /\ calls' = Append(calls, Call("detect_rapid_changes", 1, r.ref, heap[1]))
               /\ dfres' = [op |-> "detect_rapid_changes", arg |-> 1, res |-> r.ref,
                            threshold |-> threshold]
        /\ UNCHANGED <<rng, record, vres>>

NextStages ==
    \/ AddTimeFeatures
    \/ CalculateRollingStats
    \/ DetectRapidChanges

SpecStages == InitStages /\ [][NextStages]_vars

(***************************************************************************)
(* The change specification: detect_rapid_changes on a batch of varying    *)
(* heart rates whose timestamps are in any order and may repeat, or on a   *)
(* batch with no timestamp column.                                         *)
(***************************************************************************)
ChangeCells(col) ==
    CASE col = "timestamp" -> {Num(1), Num(2)}
      [] col = "heartRate" -> {Num(70), Num(90), Num(95), Num(96)}

ChangeColumns == {<<"timestamp", "heartRate">>, <<"heartRate">>}

InitChange ==
    /\ record = Strip([timestamp |-> Absent])
    /\ vres = NotCalled
    /\ \E cols \in ChangeColumns : \E n \in 0..MaxChangeRows :
        \E cells \in [timestamp : [1..n -> ChangeCells("timestamp")],
                      heartRate : [1..n -> ChangeCells("heartRate")]] :
            heap = <<BuildFrame(cols, n, cells)>>
    /\ dfres = NoResult
    /\ calls = <<>>
    /\ rng = Unseeded

NextChange == DetectBatch

SpecChange == InitChange /\ [][NextChange]_vars

(***************************************************************************)
(* The rolling specification: calculate_rolling_stats, with any window, on *)
(* a batch of varying heart rates and HRVs whose timestamps are in any     *)
(* order and may repeat, or on a batch with no timestamp column.           *)
(***************************************************************************)
RollTimestamps == {Num(1), Num(2)}
\* the <<heartRate, hrv>> of a record
RollReadings == {<<Num(70), Num(50)>>, <<Num(73), Num(50)>>, <<Num(70), Num(56)>>}

RollColumns == {<<"timestamp", "heartRate", "hrv">>, <<"heartRate", "hrv">>}

WindowInputs == 1..MaxWindow

InitRolling ==
    /\ record = Strip([timestamp |-> Absent])
    /\ vres = NotCalled
    /\ \E cols \in RollColumns : \E n \in 0..MaxRollRows :
        \E ts \in [1..n -> RollTimestamps] : \E rd \in [1..n -> RollReadings] :
            heap = <<BuildFrame(cols, n, [timestamp |-> ts,
                                         heartRate |-> [i \in 1..n |-> rd[i][1]],
                                         hrv |-> [i \in 1..n |-> rd[i][2]]])>>
    /\ dfres = NoResult
    /\ calls = <<>>
    /\ rng = Unseeded

\* out = calculate_rolling_stats(df, window) on the batch just loaded
RollBatch ==
    \E window \in WindowInputs : \E order \in StageOrders(heap[1]) :
        /\ calls = <<>>
        /\ LET r == calculate_rolling_stats(heap, 1, window, order)
           IN  /\ heap' = r.heap
               /\ calls' = Append(calls, Call("calculate_rolling_stats", 1, r.ref, heap[1]))
               /\ dfres' = [op |-> "calculate_rolling_stats", arg |-> 1, res |-> r.ref,
                            window |-> window]
        /\ UNCHANGED <<rng, record, vres>>

NextRolling == RollBatch

SpecRolling == InitRolling /\ [][NextRolling]_vars

(***************************************************************************)
(* analyze_data (scripts/analyze_data.py).  Columns of integers get exact  *)
(* statistics; a column of derived floats (hr_zscore, rolling statistics)  *)
(* gets a float the model does not compute.                                *)
(***************************************************************************)
Float == [kind |-> "float", n |-> 0, d |-> 1, s |-> ""]

Ints(x) == [i \in DOMAIN x |-> x[i].n]
RECURSIVE Sum(_)
Sum(x) == IF x = <<>> THEN 0 ELSE x[1] + Sum(Tail(x))
RECURSIVE SumSq(_)
SumSq(x) == IF x = <<>> THEN 0 ELSE x[1] * x[1] + SumSq(Tail(x))
MinOf(x) == CHOOSE v \in {x[i] : i \in DOMAIN x} : \A i \in DOMAIN x : v <= x[i]
MaxOf(x) == CHOOSE v \in {x[i] : i \in DOMAIN x} : \A i \in DOMAIN x : v >= x[i]
RemoveAt(x, i) == SubSeq(x, 1, i - 1) \o SubSeq(x, i + 1, Len(x))
RECURSIVE SortInts(_)
SortInts(x) ==
    IF x = <<>> THEN <<>>
    ELSE LET i == CHOOSE j \in DOMAIN x : x[j] = MinOf(x)
         IN  <<x[i]>> \o SortInts(RemoveAt(x, i))

\* series.quantile(qn/qd): linear interpolation between the order statistics
Quantile(x, qn, qd) ==
    LET sorted == SortInts(x)
        lo == (qn * (Len(x) - 1)) \div qd
        rem == (qn * (Len(x) - 1)) % qd
    IN  IF rem = 0 THEN Num(sorted[lo + 1])
        ELSE Rat(sorted[lo + 1] * qd + (sorted[lo + 2] - sorted[lo + 1]) * rem, qd)

\* mean, median, std (n-1), min, max, q25, q75 of a column; NaN on no rows
Describe(x) ==
    IF x = <<>>
    THEN [mean |-> NaN, median |-> NaN, std |-> NaN, min |-> NaN, max |-> NaN,
          q25 |-> NaN, q75 |-> NaN]
    ELSE IF \E i \in DOMAIN x : x[i].kind # "num"
    THEN [mean |-> Float, median |-> Float, std |-> Float, min |-> Float, max |-> Float,
          q25 |-> Float, q75 |-> Float]
    ELSE [mean |-> Mean(Sum(Ints(x)), Len(x)),
          median |-> Quantile(Ints(x), 1, 2),
          std |-> Std(Sum(Ints(x)), SumSq(Ints(x)), Len(x), 1),
          min |-> Num(MinOf(Ints(x))),
          max |-> Num(MaxOf(Ints(x))),
          q25 |-> Quantile(Ints(x), 1, 4),
          q75 |-> Quantile(Ints(x), 3, 4)]

\* df.select_dtypes(include=[np.number]).columns: a column of numbers; an empty
\* frame keeps the dtypes of the frame it was cut from
NUMERIC_NAMES == {"heartRate", "hrv", "temperature"} \cup TIME_FEATURES \cup ROLLING_COLUMNS
                    \cup CHANGE_COLUMNS \cup {"hr_zscore"}
NumericColumns(df) ==
    {c \in ColumnSet(df) :
        IF NRows(df) = 0 THEN c \in NUMERIC_NAMES
        ELSE c # "timestamp" /\ \A i \in 1..NRows(df) : df.rows[i][c].kind \in {"num", "nan", "rat", "sqrt"}}

\* df['timestamp'].min(), .max(), (max - min).total_seconds() / 3600; NaT on no rows
DateRange(df) ==
    LET ts == Ints([i \in 1..NRows(df) |-> df.rows[i]["timestamp"]])
    IN  IF NRows(df) = 0 THEN [start |-> NaN, end |-> NaN, duration_hours |-> NaN]
        ELSE [start |-> Num(MinOf(ts)), end |-> Num(MaxOf(ts)),
              duration_hours |-> Rat(MaxOf(ts) - MinOf(ts), 60)]

ANOMALY_THRESHOLD == 2

\* a faulty variant: the sample standard deviation (ddof=1) in place of scipy's default
ZScore_Sample(x) ==
    LET n == Len(x)
        S == Sum(x)
        V == n * SumSq(x) - S * S
    IN  [i \in DOMAIN x |-> IF V = 0 THEN NaN ELSE Sqrt((n * x[i] - S) * (n * x[i] - S) * (n - 1), V * n)]

\* np.abs(stats.zscore(x)): |x_i - mean| / std with the population standard
\* deviation (ddof=0), i.e. sqrt((n*x_i - S)^2 / (n*Q - S^2)); 0/0 is NaN, no raise
ZScore(x) ==
    LET n == Len(x)
        S == Sum(x)
        V == n * SumSq(x) - S * S
    IN  [i \in DOMAIN x |-> IF V = 0 THEN NaN ELSE Sqrt((n * x[i] - S) * (n * x[i] - S), V)]

\* z > threshold for z = sqrt(n/d): n > threshold^2 * d.  When n = threshold^2 * d
\* exactly, the float z is 2.0 up to rounding and the comparison goes either way
OnThreshold(z) == z.kind = "sqrt" /\ z.n = ANOMALY_THRESHOLD * ANOMALY_THRESHOLD * z.d
RoundingChoices(df) ==
    IF "heartRate" \notin ColumnSet(df) THEN {{}}
    ELSE SUBSET {i \in 1..NRows(df) :
                    OnThreshold(ZScore(Ints([j \in 1..NRows(df) |-> df.rows[j]["heartRate"]]))[i])}

\* a faulty variant: ~(z <= threshold), which holds of an undefined z-score
AboveThreshold_NotBelow(z, i, up) ==
    ~(/\ z.kind = "sqrt"
      /\ z.n <= ANOMALY_THRESHOLD * ANOMALY_THRESHOLD * z.d
      /\ ~(OnThreshold(z) /\ i \in up))

\* df['hr_zscore'] > anomaly_threshold, row i; NaN > 2.0 is False
AboveThreshold(z, i, up) ==
    /\ z.kind = "sqrt"
    /\ \/ z.n > ANOMALY_THRESHOLD * ANOMALY_THRESHOLD * z.d
       \/ OnThreshold(z) /\ i \in up

\* the distinct non-null values of a column, and the rows holding a value
Distinct(x) == {x[i].s : i \in {j \in DOMAIN x : x[j].kind = "str"}}
RowsOf(x, a) == {i \in DOMAIN x : x[i].kind = "str" /\ x[i].s = a}

\* the values in order of first appearance
RECURSIVE FirstAppearance(_)
FirstAppearance(x) ==
    IF x = <<>> THEN <<>>
    ELSE IF x[1].kind # "str" THEN FirstAppearance(Tail(x))
    ELSE <<x[1].s>> \o FirstAppearance(SelectSeq(Tail(x), LAMBDA v : v # x[1]))

\* a faulty variant: value_counts(sort=False), the values in order of first appearance
ValueCountOrders_Unsorted(x) == {FirstAppearance(x)}

\* series.value_counts(): the distinct non-null values, most frequent first; the
\* sort is not stable, so any order of equally frequent values is an outcome
ValueCountOrders(x) ==
    {o \in [1..Cardinality(Distinct(x)) -> Distinct(x)] :
        /\ \A i, j \in DOMAIN o : i # j => o[i] # o[j]
        /\ \A i \in 1..(Len(o) - 1) :
            Cardinality(RowsOf(x, o[i])) >= Cardinality(RowsOf(x, o[i + 1]))}

ActivityOrders(df) ==
    IF "activity" \notin ColumnSet(df) THEN {<<>>}
    ELSE ValueCountOrders([i \in 1..NRows(df) |-> df.rows[i]["activity"]])

\* results['anomalies'], given the frame with its hr_zscore column
Anomalies(df, up) ==
    LET mask == [i \in 1..NRows(df) |-> AboveThreshold(df.rows[i]["hr_zscore"], i, up)]
        anomalies == BoolFilter(df, mask)
    IN  [count |-> NRows(anomalies),
         percentage |-> Rat(NRows(anomalies) * 100, NRows(df)),
         threshold |-> ANOMALY_THRESHOLD,
         records |-> [k \in 1..NRows(anomalies) |->
                        [timestamp |-> anomalies.rows[k]["timestamp"],
                         heartRate |-> anomalies.rows[k]["heartRate"],
                         hr_zscore |-> anomalies.rows[k]["hr_zscore"]]]]

\* len(anomalies) / len(df) raises ZeroDivisionError on no rows;
\* anomalies[['timestamp', ...]] raises KeyError when there are anomalies and no timestamp
AnomaliesRaise(df, up) ==
    \/ NRows(df) = 0
    \/ /\ "timestamp" \notin ColumnSet(df)
       /\ \E i \in 1..NRows(df) : AboveThreshold(df.rows[i]["hr_zscore"], i, up)

\* results['activity_breakdown'], in the order value_counts gives
ActivityBreakdown(df, order) ==
    LET x == [i \in 1..NRows(df) |-> df.rows[i]["activity"]]
    IN  [k \in 1..Len(order) |->
            [activity |-> order[k],
             count |-> Cardinality(RowsOf(x, order[k])),
             percentage |-> Rat(Cardinality(RowsOf(x, order[k])) * 100, NRows(df))]]

\* results['activity_stats']: df.groupby('activity')['heartRate'].agg(mean, std, min, max)
ActivityStats(df) ==
    LET x == [i \in 1..NRows(df) |-> df.rows[i]["activity"]]
        hr(a) == Ints([k \in 1..Cardinality(RowsOf(x, a)) |->
                        df.rows[Ascending(RowsOf(x, a))[k]]["heartRate"]])
    IN  [a \in Distinct(x) |->
            [mean_hr |-> Mean(Sum(hr(a)), Len(hr(a))),
             std_hr |-> Std(Sum(hr(a)), SumSq(hr(a)), Len(hr(a)), 1),
             min_hr |-> Num(MinOf(hr(a))),
             max_hr |-> Num(MaxOf(hr(a)))]]

NoBlock == <<>>

\* analyze_data(df): the heap after the call, whether it raised, and the report.
\* `up` is the float rounding at the threshold, `order` the order of value_counts.
analyze_data(h, ref, up, order) ==
    LET df == h[ref]
        e1 == IF "heartRate" \in ColumnSet(df)
              THEN Assign(Env(h, ref), "hr_zscore",
                          ZScore(Ints([i \in 1..NRows(df) |-> df.rows[i]["heartRate"]])))
              ELSE Env(h, ref)
        raised == "heartRate" \in ColumnSet(df) /\ AnomaliesRaise(e1.heap[ref], up)
    IN  [heap |-> e1.heap,
         raised |-> raised,
         results |->
            IF raised THEN NoBlock
            ELSE [summary |-> [total_records |-> NRows(df),
                               columns |-> df.columns,
                               date_range |-> IF "timestamp" \in ColumnSet(df)
                                              THEN DateRange(df) ELSE None],
                  statistics |-> [c \in NumericColumns(df) |->
                                    Describe([i \in 1..NRows(df) |-> df.rows[i][c]])],
                  anomalies |-> IF "heartRate" \in ColumnSet(df)
                                THEN Anomalies(e1.heap[ref], up) ELSE NoBlock,
                  activity_breakdown |-> IF "activity" \in ColumnSet(df)
                                         THEN ActivityBreakdown(df, order) ELSE NoBlock,
                  activity_stats |-> IF "activity" \in ColumnSet(df) /\ "heartRate" \in ColumnSet(df)
                                     THEN ActivityStats(df) ELSE NoBlock]]

\* results = analyze_data(df) on a frame of the heap
AnalyzeData ==
    \E ref \in 1..Len(heap) : \E up \in RoundingChoices(heap[ref]) : \E order \in ActivityOrders(heap[ref]) :
        /\ Len(calls) < MaxCalls
        /\ LET r == analyze_data(heap, ref, up, order)
           IN  /\ heap' = r.heap
               /\ dfres' = [op |-> "analyze_data", arg |-> ref, raised |-> r.raised,
                            results |-> r.results]
               /\ calls' = Append(calls, Call("analyze_data", ref, ref, heap[ref]))
        /\ UNCHANGED <<rng, record, vres>>

(***************************************************************************)
(* The pipeline specification: analyze_data and the enrichment stages run  *)
(* in any order on the same base batch and on the stages' results.         *)
(***************************************************************************)
NextPipeline ==
    \/ AnalyzeData
    \/ AddTimeFeatures
    \/ CalculateRollingStats
    \/ DetectRapidChanges

SpecPipeline == InitStages /\ [][NextPipeline]_vars

(***************************************************************************)
(* The analysis specification: analyze_data on batches of varying heart    *)
(* rates (with and without a timestamp column), on batches of varying      *)
(* activities (some rows without one), and on batches lacking the          *)
(* heartRate column.  Row i carries the instant i.                         *)
(***************************************************************************)
HeartRateInputs == {Num(70), Num(72), Num(80)}
ActivityInputs == {Str("resting"), Str("walking"), None}
HeartRateColumns == {<<"timestamp", "heartRate">>, <<"heartRate">>}
ActivityColumns == {<<"timestamp", "heartRate", "activity">>, <<"timestamp", "activity">>}

\* batches of varying heart rates
InitHeartRates ==
    \E cols \in HeartRateColumns : \E n \in 0..MaxBatch : \E hr \in [1..n -> HeartRateInputs] :
        heap = <<BuildFrame(cols, n, [timestamp |-> [i \in 1..n |-> Num(i)], heartRate |-> hr])>>

\* batches of varying activities
InitActivities ==
    \E cols \in ActivityColumns : \E n \in 0..MaxActRows : \E act \in [1..n -> ActivityInputs] :
        heap = <<BuildFrame(cols, n, [timestamp |-> [i \in 1..n |-> Num(i)],
                                     heartRate |-> [i \in 1..n |-> Num(70 + i)],
                                     activity |-> act])>>

InitAnalyze ==
    /\ record = Strip([timestamp |-> Absent])
    /\ vres = NotCalled
    /\ InitHeartRates \/ InitActivities
    /\ dfres = NoResult
    /\ calls = <<>>
    /\ rng = Unseeded

NextAnalyze == AnalyzeData

SpecAnalyze == InitAnalyze /\ [][NextAnalyze]_vars

(***************************************************************************)
(* SyntheticDataGenerator.  The floats of generate_daily_pattern are       *)
(* counted in halves: a normal draw is a whole number of half standard     *)
(* deviations, and int() drops the odd half.  The process runs in UTC.     *)
(***************************************************************************)
\* int(date.timestamp()): seconds from the epoch to 2024-01-01T00:00 plus the instant's
EPOCH_2024 == 1704067200
Timestamp(t) == EPOCH_2024 + 60 * t
SEED_MODULUS == 1000

\* np.random.seed(s): the state s selects
Seed(g, s) == Rng(g.tape, s % Len(g.tape))

\* np.random.normal(0, sigma), in halves: MaxHalfSigmas half standard deviations down, none, or up
Normal(g, sigma) == (Draw(g) - 1) * MaxHalfSigmas * sigma
\* int(x) of a float of h halves: truncation towards zero
int(h) == IF h >= 0 THEN h \div 2 ELSE -((-h) \div 2)
\* np.random.choice(options, p=...)
Choice(g, options) == options[(Draw(g) % Len(options)) + 1]
\* np.random.randint(low, high): low <= value < high
RandInt(g, low, high) ==
    CASE Draw(g) = 0 -> low
      [] Draw(g) = 1 -> (low + high) \div 2
      [] OTHER -> high - 1

Max(a, b) == IF a > b THEN a ELSE b
Min(a, b) == IF a < b THEN a ELSE b

HR_CLAMP_LOW == 40
HR_CLAMP_HIGH == 200
HRV_FLOOR == 10
DAILY_INTERVAL == 30
DEFAULT_BASE_HR == 70
DEFAULT_NOISE_LEVEL == 5

GenRecord(t, hr, hrv, activity, device) ==
    [timestamp |-> Str(isoformat(t)), heartRate |-> Num(hr), hrv |-> Num(hrv),
     activity |-> Str(activity), device |-> Str(device)]

\* hr = hr_base + np.random.normal(0, hr_sigma); hrv = hrv_base + np.random.normal(0, hrv_sigma)
Reading(g, activity, hr_base, hr_sigma, hrv_base, hrv_sigma) ==
    [rng |-> Advance(Advance(g)),
     activity |-> activity,
     hr |-> 2 * hr_base + Normal(g, hr_sigma),
     hrv |-> 2 * hrv_base + Normal(Advance(g), hrv_sigma)]

\* the activity and the float readings (in halves) of the record at instant t
DailyReading(g, t, base_hr) ==
    LET hour == (t \div 60) % 24
    IN  IF 0 <= hour /\ hour < 6 THEN Reading(g, "sleeping", base_hr - 20, 3, 70, 10)
        ELSE IF 6 <= hour /\ hour < 8 THEN Reading(g, "resting", base_hr - 10, 5, 60, 8)
        ELSE IF 8 <= hour /\ hour < 12
        THEN LET activity == Choice(g, <<"walking", "resting", "exercise">>)
             IN  IF activity = "exercise" THEN Reading(Advance(g), activity, base_hr + 40, 10, 30, 5)
                 ELSE IF activity = "walking" THEN Reading(Advance(g), activity, base_hr + 15, 8, 45, 8)
                 ELSE Reading(Advance(g), activity, base_hr, 5, 55, 8)
        ELSE IF 12 <= hour /\ hour < 18
        THEN LET activity == Choice(g, <<"walking", "resting">>)
             IN  Reading(Advance(g), activity,
                         base_hr + (IF activity = "walking" THEN 10 ELSE 0), 8, 50, 10)
        ELSE IF 18 <= hour /\ hour < 22 THEN Reading(g, "resting", base_hr - 5, 5, 55, 8)
        ELSE Reading(g, "sleeping", base_hr - 15, 3, 65, 8)

\* a faulty variant: the heart rate is not clamped
DailyRecord_Unclamped(g, t, base_hr, noise_level) ==
    LET r == DailyReading(g, t, base_hr)
        hr == r.hr + Normal(r.rng, noise_level)
    IN  [rng |-> Advance(r.rng),
         rec |-> GenRecord(t, int(hr), Max(HRV_FLOOR, int(r.hrv)), r.activity, "Synthetic Generator")]

\* one pass of the loop body: the record, and the generator after its draws
DailyRecord(g, t, base_hr, noise_level) ==
    LET r == DailyReading(g, t, base_hr)
        hr == r.hr + Normal(r.rng, noise_level)
    IN  [rng |-> Advance(r.rng),
         rec |-> GenRecord(t, Max(HR_CLAMP_LOW, Min(HR_CLAMP_HIGH, int(hr))),
                           Max(HRV_FLOOR, int(r.hrv)),
                           r.activity, "Synthetic Generator")]

\* for i in range(num_records), from pass i on
RECURSIVE DailyLoop(_, _, _, _, _, _)

\* a faulty variant: the first record is one interval after the date
DailyLoop_FromNext(g, date, i, num_records, base_hr, noise_level) ==
    IF i >= num_records THEN [rng |-> g, records |-> <<>>]
    ELSE LET r == DailyRecord(g, date + DAILY_INTERVAL * (i + 1), base_hr, noise_level)
             rest == DailyLoop(r.rng, date, i + 1, num_records, base_hr, noise_level)
         IN  [rng |-> rest.rng, records |-> <<r.rec>> \o rest.records]

DailyLoop(g, date, i, num_records, base_hr, noise_level) ==
    IF i >= num_records THEN [rng |-> g, records |-> <<>>]
    ELSE LET r == DailyRecord(g, date + DAILY_INTERVAL * i, base_hr, noise_level)
             rest == DailyLoop(r.rng, date, i + 1, num_records, base_hr, noise_level)
         IN  [rng |-> rest.rng, records |-> <<r.rec>> \o rest.records]

\* generate_daily_pattern(date, num_records, base_hr, noise_level): the records, and
\* the generator after the call
generate_daily_pattern(g, date, num_records, base_hr, noise_level) ==
    DailyLoop(Seed(g, Timestamp(date) % SEED_MODULUS), date, 0, num_records, base_hr, noise_level)

EPISODE_INTERVAL == 5

\* progress < 0.3 and progress < 0.7 for progress = i / num_records
Onset(i, n) == 10 * i < 3 * n
BeforeRecovery(i, n) == 10 * i < 7 * n

\* The doubles of generate_tpp_episode are exact fractions up to rounding, which
\* int() shows only where the exact value is whole: for the progress values num/den
\* below (all there are in batches of up to 60 records) the double
\* 15 * (1 - progress / 0.3) lies just under its exact value, and nowhere in those
\* batches does another expression of the function.
FLOAT_SHORT == {<<1, 5>>, <<6, 25>>, <<7, 25>>, <<7, 50>>, <<11, 50>>, <<13, 50>>}
FloatShort(i, n) == \E f \in FLOAT_SHORT : i * f[2] = n * f[1]

\* a faulty variant: int() replaced by rounding to the nearest integer
OnsetHr_Rounded(i, n) == 45 + (2 * (15 * n - 50 * i) + n) \div (2 * n)

\* 45 + int(15 * (1 - progress / 0.3)), exactly 15 - 50*i/n before int()
OnsetHr(i, n) == 45 + (15 * n - 50 * i) \div n - (IF FloatShort(i, n) THEN 1 ELSE 0)
\* 20 + int(10 * progress / 0.3)
OnsetHrv(i, n) == 20 + (100 * i) \div (3 * n)
\* 45 + int(25 * recovery_progress), recovery_progress = (10*i - 7*n) / (3*n)
RecoveryHr(i, n) == 45 + (25 * (10 * i - 7 * n)) \div (3 * n)
\* 20 + int(30 * recovery_progress)
RecoveryHrv(i, n) == 20 + (30 * (10 * i - 7 * n)) \div (3 * n)

\* one pass of the loop body: the record, and the generator after its draws
EpisodeRecord(g, start_time, i, n) ==
    LET t == start_time + EPISODE_INTERVAL * i
        device == "TPP Episode Simulator"
    IN  IF Onset(i, n)
        THEN [rng |-> g, rec |-> GenRecord(t, OnsetHr(i, n), OnsetHrv(i, n), "resting", device)]
        ELSE IF BeforeRecovery(i, n)
        THEN [rng |-> Advance(Advance(g)),
              rec |-> GenRecord(t, 40 + RandInt(g, -5, 5), 15 + RandInt(Advance(g), -3, 3),
                                "resting", device)]
        ELSE [rng |-> g, rec |-> GenRecord(t, RecoveryHr(i, n), RecoveryHrv(i, n), "resting", device)]

\* for i in range(num_records): the generator when pass i begins
RECURSIVE EpisodeLoop(_, _, _, _)
EpisodeLoop(g, start_time, i, n) ==
    IF i <= 0 THEN g ELSE EpisodeRecord(EpisodeLoop(g, start_time, i - 1, n), start_time, i - 1, n).rng

\* generate_tpp_episode(start_time, duration_minutes): no seed is set; the records
\* of the passes, and the generator after the last
generate_tpp_episode(g, start_time, duration_minutes) ==
    LET num_records == duration_minutes \div EPISODE_INTERVAL
    IN  [rng |-> EpisodeLoop(g, start_time, num_records, num_records),
         records |-> [k \in 1..num_records |->
                        EpisodeRecord(EpisodeLoop(g, start_time, k - 1, num_records),
                                      start_time, k - 1, num_records).rec]]

(***************************************************************************)
(* The generator specifications.  The process starts with the generator in *)
(* any state (numpy seeds it from the operating system).                   *)
(***************************************************************************)
GenCall(op, args, res) == [op |-> op, args |-> args, res |-> res]

InitGenerator(states) ==
    /\ record = Strip([timestamp |-> Absent])
    /\ vres = NotCalled
    /\ heap = <<>>
    /\ dfres = NoResult
    /\ calls = <<>>
    /\ \E tape \in [1..states -> Draws] : \E pos \in 0..(states - 1) : rng = Rng(tape, pos)

\* data = generator.generate_daily_pattern(date, num_records, base_hr, noise_level)
DailyCall(date, num_records, base_hr, noise_level) ==
    LET r == generate_daily_pattern(rng, date, num_records, base_hr, noise_level)
    IN  /\ rng' = r.rng
        /\ calls' = Append(calls, GenCall("generate_daily_pattern",
                                          <<date, num_records, base_hr, noise_level>>, r.records))
        /\ UNCHANGED <<record, vres, heap, dfres>>

\* data = generator.generate_tpp_episode(start_time, duration_minutes)
EpisodeCall(start_time, duration_minutes) ==
    LET r == generate_tpp_episode(rng, start_time, duration_minutes)
    IN  /\ rng' = r.rng
        /\ calls' = Append(calls, GenCall("generate_tpp_episode",
                                          <<start_time, duration_minutes>>, r.records))
        /\ UNCHANGED <<record, vres, heap, dfres>>

(***************************************************************************)
(* The generation specification: the two generators called one after the   *)
(* other, in any order, some calls repeating the parameters of an earlier   *)
(* one.  00:00 and 00:50 are a multiple of 1000 seconds apart.              *)
(***************************************************************************)
RepeatDates == {0, 50}
RepeatDurations == {10, 20}

InitGenerate == InitGenerator(4)

GenerateDailyPattern ==
    /\ Len(calls) < MaxCalls
    /\ \E date \in RepeatDates : \E num_records \in 1..MaxGenRecords :
        DailyCall(date, num_records, DEFAULT_BASE_HR, DEFAULT_NOISE_LEVEL)

GenerateTppEpisode ==
    /\ Len(calls) < MaxCalls
    /\ \E duration_minutes \in RepeatDurations : EpisodeCall(0, duration_minutes)

NextGenerate ==
    \/ GenerateDailyPattern
    \/ GenerateTppEpisode

SpecGenerate == InitGenerate /\ [][NextGenerate]_vars

(***************************************************************************)
(* The conformance specification: one batch is generated, by either        *)
(* generator, loaded into a frame and validated.  The dates start the      *)
(* batch in, or just before the end of, each hour regime of the day.       *)
(***************************************************************************)
DailyDates == {0, 350, 470, 710, 1070, 1310, 1430}
BaseHrInputs == {DEFAULT_BASE_HR, 0, 250}
EpisodeStarts == {0, 1430}
EpisodeDurations == {0, 4, 5, 10, 35}

\* df = pd.DataFrame(data): the keys of the records are the columns
GEN_COLUMNS == <<"timestamp", "heartRate", "hrv", "activity", "device">>
DataFrameOf(records) ==
    IF records = <<>> THEN Frame(<<>>, <<>>, <<>>)
    ELSE Frame(GEN_COLUMNS, RangeIndex(Len(records)), records)

InitConform == InitGenerator(4)

GenerateDailyBatch ==
    /\ calls = <<>>
    /\ \E date \in DailyDates : \E num_records \in 0..MaxGenRecords : \E base_hr \in BaseHrInputs :
        DailyCall(date, num_records, base_hr, DEFAULT_NOISE_LEVEL)

GenerateEpisodeBatch ==
    /\ calls = <<>>
    /\ \E start_time \in EpisodeStarts : \E duration_minutes \in EpisodeDurations :
        EpisodeCall(start_time, duration_minutes)

\* DataValidator.validate_dataframe(pd.DataFrame(data))
ValidateGenerated ==
    /\ calls # <<>>
    /\ dfres = NoResult
    /\ heap' = <<DataFrameOf(calls[1].res)>>
    /\ dfres' = [op |-> "validate_dataframe"] @@ validate_dataframe(DataFrameOf(calls[1].res))
    /\ UNCHANGED <<record, vres, calls, rng>>

NextConform ==
    \/ GenerateDailyBatch
    \/ GenerateEpisodeBatch
    \/ ValidateGenerated

SpecConform == InitConform /\ [][NextConform]_vars

(***************************************************************************)
(* The episode specification: one episode of any duration is generated.    *)
(***************************************************************************)
InitEpisode == InitGenerator(2)

GenerateEpisode ==
    /\ calls = <<>>
    /\ \E duration_minutes \in (-EPISODE_INTERVAL)..MaxDuration : EpisodeCall(0, duration_minutes)

NextEpisode == GenerateEpisode

SpecEpisode == InitEpisode /\ [][NextEpisode]_vars

(***************************************************************************)
(* Claims about DataValidator.                                             *)
(***************************************************************************)
MissingFields(rec) == RequiredSet \ DOMAIN rec

\* C1: when a required field is missing from the record, validate_record returns
\* invalid with the missing-field message naming a missing field (exactly the
\* removed field when one field is missing), whatever the values of the fields
\* that are present: no value error is reported before it.
C1_MissingFieldReportedFirst ==
    (vres.called /\ MissingFields(record) # {}) =>
        /\ ~vres.res.valid
        /\ vres.res.code = "Missing required field"
        /\ vres.res.field \in MissingFields(record)

C1_Witness ==
    /\ vres.called
    /\ MissingFields(record) = {"hrv"}
    /\ record["heartRate"] = Num(221)
    /\ record["activity"] = Str("Resting")
    /\ vres.res = Invalid("Missing required field", "hrv")

\* the 0-based ordinal positions of the invalid records of a frame, ascending
InvalidOrdinals(df) ==
    Ascending({i - 1 : i \in {j \in 1..NRows(df) : ~validate_record(df.rows[j]).valid}})

\* C2: every error validate_dataframe returns for an invalid record is tagged with
\* that record's 0-based ordinal position in the batch, also when the batch was
\* filtered or re-ordered before validation.
C2_ErrorsTaggedWithOrdinal ==
    (dfres.op = "validate_dataframe" /\ RequiredSet \subseteq ColumnSet(heap[1])) =>
        /\ Len(dfres.errors) = Len(InvalidOrdinals(heap[1]))
        /\ \A k \in 1..Len(dfres.errors) : dfres.errors[k].row = InvalidOrdinals(heap[1])[k]

MissingColumnSet(df) == RequiredSet \ ColumnSet(df)

\* C3 (as stated): when required columns are absent, the result is invalid and the
\* error list holds exactly one error, however many columns are missing.
C3_SingleSchemaError ==
    (dfres.op = "validate_dataframe" /\ MissingColumnSet(heap[1]) # {}) =>
        /\ ~dfres.valid
        /\ Len(dfres.errors) = 1

\* C3 (amended): when required columns are absent, the result is invalid, no
\* per-record error is reported, and the error list holds exactly one schema error
\* per missing required column, in REQUIRED_FIELDS order, however many rows.
C3_OneSchemaErrorPerMissingColumn ==
    (dfres.op = "validate_dataframe" /\ MissingColumnSet(heap[1]) # {}) =>
        /\ ~dfres.valid
        /\ Len(dfres.errors) = Cardinality(MissingColumnSet(heap[1]))
        /\ \A k \in 1..Len(dfres.errors) :
            /\ dfres.errors[k].code = "Missing required column"
            /\ dfres.errors[k].row = -1
            /\ dfres.errors[k].field \in MissingColumnSet(heap[1])
        /\ \A k, l \in 1..Len(dfres.errors) :
            k < l => \E i, j \in 1..Len(REQUIRED_FIELDS) :
                        /\ i < j
                        /\ REQUIRED_FIELDS[i] = dfres.errors[k].field
                        /\ REQUIRED_FIELDS[j] = dfres.errors[l].field

C3_Witness ==
    /\ dfres.op = "validate_dataframe"
    /\ MissingColumnSet(heap[1]) = {"timestamp", "hrv"}
    /\ NRows(heap[1]) = 2
    /\ \E i \in 1..NRows(heap[1]) : heap[1].rows[i]["heartRate"] = Num(221)
    /\ Len(dfres.errors) = 2

(***************************************************************************)
(* Claims about DataProcessor.                                             *)
(***************************************************************************)
DerivedColumns(op) ==
    CASE op = "add_time_features" -> TIME_FEATURES
      [] op = "calculate_rolling_stats" -> ROLLING_COLUMNS
      [] op = "detect_rapid_changes" -> CHANGE_COLUMNS

\* C5: the enrichment stages never mutate their input: after any sequence of stage
\* calls every frame that was passed to a stage (the base batch first of all) still
\* has the columns, values and row order it had when it was passed, the result is
\* a different object, and the result of a stage run on the base batch has the
\* base columns plus that stage's derived columns only.
C5_StagesDoNotMutateInput ==
    \A k \in 1..Len(calls) :
        /\ heap[calls[k].arg] = calls[k].before
        /\ heap[1] = calls[1].before
        /\ calls[k].res # calls[k].arg
        /\ calls[k].arg = 1 =>
            ColumnSet(heap[calls[k].res]) = ColumnSet(calls[1].before) \cup DerivedColumns(calls[k].op)

C5_Witness ==
    /\ Len(calls) = 2
    /\ calls[1].op = "detect_rapid_changes" /\ calls[1].arg = 1
    /\ calls[2].op = "add_time_features" /\ calls[2].arg = 1
    /\ NRows(heap[1]) = 2
    /\ heap[1].rows[1]["timestamp"].n > heap[1].rows[2]["timestamp"].n
    /\ heap[calls[1].res].index = <<1, 0>>
    /\ "hour" \in ColumnSet(heap[calls[2].res])
    /\ "hour" \notin ColumnSet(heap[calls[1].res])

\* the batch handed to the last detect_rapid_changes call and the batch it returned
Detected == dfres.op = "detect_rapid_changes"
ChangeIn == calls[1].before
ChangeOut == heap[dfres.res]

\* C10: the output of detect_rapid_changes holds the input's records ordered by
\* timestamp ascending (in input order when there is no timestamp column); the
\* first record's hr_change is undefined and its rapid_change is 0; for the record
\* at position k >= 2, hr_change is |heartRate_k - heartRate_(k-1)| with k-1 its
\* predecessor in the output order, and rapid_change is 1 iff hr_change > threshold
\* (strictly), else 0.
C10_RapidChangeOfSortedPredecessor ==
    Detected =>
        /\ NRows(ChangeOut) = NRows(ChangeIn)
        /\ \A i \in 1..NRows(ChangeIn) : \E k \in 1..NRows(ChangeOut) :
            /\ ChangeOut.index[k] = ChangeIn.index[i]
            /\ \A c \in ColumnSet(ChangeIn) : ChangeOut.rows[k][c] = ChangeIn.rows[i][c]
        /\ \A k, l \in 1..NRows(ChangeOut) : k # l => ChangeOut.index[k] # ChangeOut.index[l]
        /\ IF "timestamp" \in ColumnSet(ChangeIn)
           THEN \A k \in 1..(NRows(ChangeOut) - 1) :
                    ChangeOut.rows[k]["timestamp"].n <= ChangeOut.rows[k + 1]["timestamp"].n
           ELSE ChangeOut.index = ChangeIn.index
        /\ \A k \in 1..NRows(ChangeOut) :
            IF k = 1
            THEN /\ ChangeOut.rows[k]["hr_change"] = NaN
                 /\ ChangeOut.rows[k]["rapid_change"] = Num(0)
            ELSE /\ ChangeOut.rows[k]["hr_change"] =
                        Num(Abs(ChangeOut.rows[k]["heartRate"].n - ChangeOut.rows[k - 1]["heartRate"].n))
                 /\ ChangeOut.rows[k]["rapid_change"] =
                        Num(IF ChangeOut.rows[k]["hr_change"].n > dfres.threshold THEN 1 ELSE 0)

C10_Witness ==
    /\ Detected
    /\ dfres.threshold = 20
    /\ "timestamp" \in ColumnSet(ChangeIn)
    /\ NRows(ChangeIn) = 3
    /\ [i \in 1..3 |-> ChangeIn.rows[i]["timestamp"].n] = <<2, 1, 2>>
    /\ [i \in 1..3 |-> ChangeIn.rows[i]["heartRate"].n] = <<95, 70, 96>>
    /\ [k \in 1..3 |-> ChangeOut.rows[k]["heartRate"].n] = <<70, 95, 96>>
    /\ [k \in 1..3 |-> ChangeOut.rows[k]["rapid_change"].n] = <<0, 1, 0>>

\* the batch handed to the last calculate_rolling_stats call and the batch it returned
Rolled == dfres.op = "calculate_rolling_stats"
RollIn == calls[1].before
RollOut == heap[dfres.res]

\* the 1-based positions max(1, k-w+1)..k of the trailing window at position k
TrailingWindow(k, w) == {j \in 1..k : j >= k - w + 1}
RECURSIVE SumOver(_, _)
SumOver(f, S) == IF S = {} THEN 0 ELSE LET j == CHOOSE x \in S : TRUE IN f[j] + SumOver(f, S \ {j})

\* the mean and the sample (n-1) standard deviation of column c of the output over
\* the positions W: undefined for fewer than two records
MeanOver(c, W) == Rat(SumOver([j \in 1..NRows(RollOut) |-> RollOut.rows[j][c].n], W), Cardinality(W))
StdOver(c, W) ==
    LET S == SumOver([j \in 1..NRows(RollOut) |-> RollOut.rows[j][c].n], W)
        Q == SumOver([j \in 1..NRows(RollOut) |-> RollOut.rows[j][c].n * RollOut.rows[j][c].n], W)
    IN  IF Cardinality(W) < 2 THEN NaN
        ELSE Sqrt(Cardinality(W) * Q - S * S, Cardinality(W) * (Cardinality(W) - 1))

\* C11: the output of calculate_rolling_stats with window w >= 1 holds the input's
\* records ordered by timestamp ascending (in input order when there is no timestamp
\* column), and the rolling mean and standard deviation of heartRate and hrv at
\* (0-based) position i are those of exactly the records at positions
\* max(0, i-w+1)..i, min(w, i+1) of them and none later; at position 0 the mean is
\* the record's own value and the standard deviation is undefined; at every
\* position i >= w-1 the window holds exactly w records.
C11_TrailingWindowStatistics ==
    Rolled =>
        /\ NRows(RollOut) = NRows(RollIn)
        /\ IF "timestamp" \in ColumnSet(RollIn)
           THEN \A k \in 1..(NRows(RollOut) - 1) :
                    RollOut.rows[k]["timestamp"].n <= RollOut.rows[k + 1]["timestamp"].n
           ELSE RollOut.index = RollIn.index
        /\ \A i \in 1..NRows(RollIn) : \E k \in 1..NRows(RollOut) :
            /\ RollOut.index[k] = RollIn.index[i]
            /\ \A c \in ColumnSet(RollIn) : RollOut.rows[k][c] = RollIn.rows[i][c]
        /\ \A k \in 1..NRows(RollOut) :
            LET W == TrailingWindow(k, dfres.window)
            IN  /\ Cardinality(W) = (IF dfres.window < k THEN dfres.window ELSE k)
                /\ k >= dfres.window => Cardinality(W) = dfres.window
                /\ RollOut.rows[k]["hr_rolling_mean"] = MeanOver("heartRate", W)
                /\ RollOut.rows[k]["hrv_rolling_mean"] = MeanOver("hrv", W)
                /\ RollOut.rows[k]["hr_rolling_std"] = StdOver("heartRate", W)
                /\ RollOut.rows[k]["hrv_rolling_std"] = StdOver("hrv", W)
                /\ k = 1 => /\ RollOut.rows[k]["hr_rolling_mean"] = Rat(RollOut.rows[k]["heartRate"].n, 1)
                            /\ RollOut.rows[k]["hrv_rolling_mean"] = Rat(RollOut.rows[k]["hrv"].n, 1)
                            /\ RollOut.rows[k]["hr_rolling_std"] = NaN
                            /\ RollOut.rows[k]["hrv_rolling_std"] = NaN

C11_Witness ==
    /\ Rolled
    /\ dfres.window = 2
    /\ "timestamp" \in ColumnSet(RollIn)
    /\ NRows(RollIn) = 3
    /\ [i \in 1..3 |-> RollIn.rows[i]["timestamp"].n] = <<2, 1, 2>>
    /\ [i \in 1..3 |-> RollIn.rows[i]["heartRate"].n] = <<73, 70, 73>>
    /\ [k \in 1..3 |-> RollOut.rows[k]["hr_rolling_mean"]] = <<Rat(70, 1), Rat(143, 2), Rat(146, 2)>>
    /\ [k \in 1..3 |-> RollOut.rows[k]["hr_rolling_std"].kind] = <<"nan", "sqrt", "sqrt">>

(***************************************************************************)
(* Claims about analyze_data.                                              *)
(***************************************************************************)
\* C4: analyze_data is read-only: after any call the batch passed in has the same
\* columns and the same values as before the call.
C4_AnalyzeLeavesBatchUnchanged ==
    \A k \in 1..Len(calls) :
        calls[k].op = "analyze_data" => heap[calls[k].arg] = calls[k].before

\* the batch of the last analyze_data call, and its heartRate and activity columns
Analyzed == dfres.op = "analyze_data"
Batch == heap[dfres.arg]
HasColumn(c) == c \in ColumnSet(Batch)
HeartRates == Ints([i \in 1..NRows(Batch) |-> Batch.rows[i]["heartRate"]])
Activities == [i \in 1..NRows(Batch) |-> Batch.rows[i]["activity"]]

\* C6: analyze_data on a batch of zero rows with a heartRate column does not raise:
\* it returns a report with record count 0 and NaN for the anomaly percentage.
C6_EmptyBatchReport ==
    (Analyzed /\ HasColumn("heartRate") /\ NRows(Batch) = 0) =>
        /\ ~dfres.raised
        /\ dfres.results.summary.total_records = 0
        /\ dfres.results.anomalies.count = 0
        /\ dfres.results.anomalies.percentage = NaN

\* C7: on a non-empty batch whose heart rates are all equal, analyze_data does not
\* raise and reports an anomaly count of 0 and an empty list of anomalous records.
C7_EqualHeartRatesNoAnomalies ==
    (/\ Analyzed
     /\ HasColumn("heartRate")
     /\ NRows(Batch) >= 1
     /\ \A i, j \in 1..NRows(Batch) : HeartRates[i] = HeartRates[j]) =>
        /\ ~dfres.raised
        /\ dfres.results.anomalies.count = 0
        /\ dfres.results.anomalies.records = <<>>

C7_Witness ==
    /\ Analyzed
    /\ HasColumn("heartRate")
    /\ NRows(Batch) = 5
    /\ \A i \in 1..NRows(Batch) : HeartRates[i] = 70
    /\ ~dfres.raised
    /\ dfres.results.anomalies.count = 0

\* (n*hr_i - S)^2 and n*Q - S^2 of the analyzed batch
DevSq(i) ==
    (NRows(Batch) * HeartRates[i] - Sum(HeartRates)) * (NRows(Batch) * HeartRates[i] - Sum(HeartRates))
VarNum == NRows(Batch) * SumSq(HeartRates) - Sum(HeartRates) * Sum(HeartRates)

\* |z_i| > 2 with the sample (n-1) and with the population (n) standard deviation
FlaggedSample(i) == DevSq(i) * (NRows(Batch) - 1) > 4 * NRows(Batch) * VarNum
FlaggedPopulation(i) == DevSq(i) > 4 * VarNum
AtPopulationThreshold(i) == VarNum > 0 /\ DevSq(i) = 4 * VarNum

\* the report's list for the rows F: timestamp, heartRate and z-score, in batch order
RecordsOf(F) ==
    [k \in 1..Cardinality(F) |->
        [timestamp |-> Batch.rows[Ascending(F)[k]]["timestamp"],
         heartRate |-> Batch.rows[Ascending(F)[k]]["heartRate"],
         hr_zscore |-> Sqrt(DevSq(Ascending(F)[k]), VarNum)]]

CountOf(a) == Cardinality(RowsOf(Activities, a))
Breakdown == dfres.results.activity_breakdown
BreakdownCounts == [k \in 1..Len(Breakdown) |-> Breakdown[k].count]

\* C9 (as stated): the activities are enumerated in order of first appearance in
\* the batch, each with its count, and the counts sum to the record count.  Stated
\* for the batches in which every record has an activity and no two activities are
\* equally frequent, where the order value_counts gives is determined.
C9_FirstAppearanceOrder ==
    (/\ Analyzed
     /\ HasColumn("activity")
     /\ ~dfres.raised
     /\ \A i \in 1..NRows(Batch) : Activities[i].kind = "str"
     /\ \A a, b \in Distinct(Activities) : a # b => CountOf(a) # CountOf(b)) =>
        /\ [k \in 1..Len(Breakdown) |-> Breakdown[k].activity] = FirstAppearance(Activities)
        /\ \A k \in 1..Len(Breakdown) : Breakdown[k].count = CountOf(Breakdown[k].activity)
        /\ Sum(BreakdownCounts) = NRows(Batch)

\* C9 (amended): the distinct activity values are enumerated most frequent first
\* (non-increasing count), each once and with its count and its percentage of the
\* record count; the counts sum to the number of records that have an activity, so
\* when every record has one the percentages sum to 100.
C9_MostFrequentFirst ==
    (Analyzed /\ HasColumn("activity") /\ ~dfres.raised) =>
        /\ {Breakdown[k].activity : k \in 1..Len(Breakdown)} = Distinct(Activities)
        /\ \A k, l \in 1..Len(Breakdown) : k # l => Breakdown[k].activity # Breakdown[l].activity
        /\ \A k \in 1..Len(Breakdown) :
            /\ Breakdown[k].count = CountOf(Breakdown[k].activity)
            /\ Breakdown[k].percentage = Rat(Breakdown[k].count * 100, NRows(Batch))
        /\ \A k \in 1..(Len(Breakdown) - 1) : Breakdown[k].count >= Breakdown[k + 1].count
        /\ Sum(BreakdownCounts) = Cardinality({i \in 1..NRows(Batch) : Activities[i].kind = "str"})
        /\ (\A i \in 1..NRows(Batch) : Activities[i].kind = "str") =>
                Sum(BreakdownCounts) * 100 = 100 * NRows(Batch)

C9_Witness ==
    /\ Analyzed
    /\ ~dfres.raised
    /\ HasColumn("activity")
    /\ Activities = <<Str("walking"), Str("resting"), Str("resting")>>
    /\ Breakdown[1].activity = "resting" /\ Breakdown[1].count = 2
    /\ Breakdown[2].activity = "walking" /\ Breakdown[2].count = 1

(***************************************************************************)
(* Claims about SyntheticDataGenerator.                                    *)
(***************************************************************************)
\* the hour regime of an instant: the bounds of the branch of the daily pattern it takes
Regime(t) ==
    LET hour == (t \div 60) % 24
    IN  IF hour < 6 THEN <<0, 6>> ELSE IF hour < 8 THEN <<6, 8>> ELSE IF hour < 12 THEN <<8, 12>>
        ELSE IF hour < 18 THEN <<12, 18>> ELSE IF hour < 22 THEN <<18, 22>> ELSE <<22, 24>>

\* what the draws decide of a batch: heartRate, hrv and activity of each record
Drawn(records) ==
    [i \in 1..Len(records) |-> <<records[i].heartRate, records[i].hrv, records[i].activity>>]

\* C12: both generators are deterministic given their parameters: any two calls of
\* generate_daily_pattern with the same parameters return the same batch, and so do
\* any two calls of generate_tpp_episode, whatever was called (and drawn) before
\* each; and two daily calls whose dates are a multiple of 1000 seconds apart, with
\* the other parameters equal and their records in the same hour regimes, get the
\* same draws: the same heart rates, HRVs and activities.
C12_GenerationDeterministic ==
    \A k, l \in 1..Len(calls) :
        /\ (calls[k].op = calls[l].op /\ calls[k].args = calls[l].args) => calls[k].res = calls[l].res
        /\ (/\ calls[k].op = "generate_daily_pattern"
            /\ calls[l].op = "generate_daily_pattern"
            /\ (Timestamp(calls[k].args[1]) - Timestamp(calls[l].args[1])) % 1000 = 0
            /\ \A a \in 2..4 : calls[k].args[a] = calls[l].args[a]
            /\ \A i \in 0..(calls[k].args[2] - 1) :
                    Regime(calls[k].args[1] + 30 * i) = Regime(calls[l].args[1] + 30 * i))
           => Drawn(calls[k].res) = Drawn(calls[l].res)

\* the last generated batch and the parameters it was asked with
Generated(op) == calls # <<>> /\ calls[1].op = op
GenArgs == calls[1].args
GenBatch == calls[1].res

\* the activities the claim allows at an hour of the day
ActivitiesAt(hour) ==
    IF hour < 6 \/ hour >= 22 THEN {"sleeping"}
    ELSE IF hour < 8 \/ hour >= 18 THEN {"resting"}
    ELSE IF hour < 12 THEN {"walking", "resting", "exercise"}
    ELSE {"walking", "resting"}

\* C13: generate_daily_pattern(start, num_records) with num_records >= 0 returns
\* exactly num_records records; record k (from 0) has the timestamp
\* start + k * 30 minutes, the first one start itself; and each record's activity is
\* one its hour regime allows: sleeping in [0,6) and [22,24), resting in [6,8) and
\* [18,22), walking, resting or exercise in [8,12), walking or resting in [12,18).
C13_DailyCadenceAndRegimes ==
    Generated("generate_daily_pattern") =>
        /\ Len(GenBatch) = GenArgs[2]
        /\ \A k \in 1..Len(GenBatch) :
            /\ GenBatch[k].timestamp.kind = "str"
            /\ GenBatch[k].timestamp.s \in ISO_STRINGS
            /\ to_datetime(GenBatch[k].timestamp) = Num(GenArgs[1] + 30 * (k - 1))
            /\ GenBatch[k].activity.kind = "str"
            /\ GenBatch[k].activity.s \in ActivitiesAt(((GenArgs[1] + 30 * (k - 1)) \div 60) % 24)

C13_Witness ==
    /\ Generated("generate_daily_pattern")
    /\ GenArgs[1] = 710 /\ GenArgs[2] = 2
    /\ GenBatch[1].timestamp = Str("2024-01-01T11:50:00")
    /\ GenBatch[2].timestamp = Str("2024-01-01T12:20:00")
    /\ GenBatch[1].activity = Str("exercise")
    /\ GenBatch[2].activity = Str("walking")

\* the batch was loaded into a frame and validated
Validated == calls # <<>> /\ dfres.op = "validate_dataframe"

\* C15: every record either generator produces is conformant, whatever the
\* parameters and the draws: it has the four required fields, a heartRate in
\* [30, 220] (in [40, 200] from generate_daily_pattern), an hrv >= 0 (>= 10 from
\* generate_daily_pattern) and an activity among resting, walking, exercise and
\* sleeping, and it passes validate_record; so validating any non-empty generated
\* batch returns valid with no errors.
C15_GeneratedRecordsConformant ==
    /\ \A k \in 1..Len(calls) : \A i \in 1..Len(calls[k].res) :
        LET rec == calls[k].res[i]
        IN  /\ RequiredSet \subseteq DOMAIN rec
            /\ rec.heartRate.kind = "num" /\ rec.heartRate.n >= 30 /\ rec.heartRate.n <= 220
            /\ rec.hrv.kind = "num" /\ rec.hrv.n >= 0
            /\ rec.activity.kind = "str"
            /\ rec.activity.s \in {"resting", "walking", "exercise", "sleeping"}
            /\ calls[k].op = "generate_daily_pattern" =>
                    rec.heartRate.n >= 40 /\ rec.heartRate.n <= 200 /\ rec.hrv.n >= 10
            /\ validate_record(rec) = Valid
    /\ (Validated /\ GenBatch # <<>>) => (dfres.valid /\ dfres.errors = <<>>)

C15_Witness ==
    /\ Validated
    /\ Generated("generate_daily_pattern")
    /\ GenArgs[3] = 250
    /\ Len(GenBatch) = 2
    /\ GenBatch[1].heartRate = Num(200)
    /\ GenBatch[1].hrv = Num(10)
    /\ GenBatch[2].activity = Str("exercise")
    /\ dfres.valid

\* the number of records of the episode asked for, and the heart rate of record i (from 0)
EpisodeN == GenArgs[2] \div 5
EpisodeHr(i) == GenBatch[i + 1].heartRate.n

\* the integers nearest to num/den >= 0 (both neighbours of a half)
Nearest(num, den) == {k \in 0..(num \div den + 1) : 2 * Abs(num - k * den) <= den}

\* the phases: p < 0.3, 0.3 <= p < 0.7, p >= 0.7 for p = i/n
InOnset(i) == 10 * i < 3 * EpisodeN
InPeak(i) == 10 * i >= 3 * EpisodeN /\ 10 * i < 7 * EpisodeN
InRecovery(i) == 10 * i >= 7 * EpisodeN

\* the heart rate does not rise over the onset records nor fall over the recovery records
EpisodeMonotone ==
    \A i, j \in 0..(EpisodeN - 1) :
        i < j => /\ (InOnset(i) /\ InOnset(j)) => EpisodeHr(i) >= EpisodeHr(j)
                 /\ (InRecovery(i) /\ InRecovery(j)) => EpisodeHr(i) <= EpisodeHr(j)

\* C14 (as stated): with n = duration // 5 records and p = i/n, the heart rate of
\* record i is 45 + round(15*(1 - p/0.3)) = 45 + round((15n - 50i)/n) in the onset
\* phase, lies in [35, 44] in the peak phase and is 45 + round(25*r) =
\* 45 + round(25*(10i - 7n)/(3n)) in the recovery phase, round being rounding to the
\* nearest integer; so it is non-increasing over onset and non-decreasing over
\* recovery.  Where the exact onset value is whole, one less is accepted too, so
\* that only the rounding is in question.
C14_EpisodeRounded ==
    Generated("generate_tpp_episode") =>
        /\ \A i \in 0..(EpisodeN - 1) :
            /\ InOnset(i) =>
                    \/ EpisodeHr(i) - 45 \in Nearest(15 * EpisodeN - 50 * i, EpisodeN)
                    \/ /\ (15 * EpisodeN - 50 * i) % EpisodeN = 0
                       /\ EpisodeHr(i) - 45 = (15 * EpisodeN - 50 * i) \div EpisodeN - 1
            /\ InPeak(i) => (EpisodeHr(i) >= 35 /\ EpisodeHr(i) <= 44)
            /\ InRecovery(i) =>
                    EpisodeHr(i) - 45 \in Nearest(25 * (10 * i - 7 * EpisodeN), 3 * EpisodeN)
        /\ EpisodeMonotone

\* C14 (amended): the heart rate of record i is 45 + int(15*(1 - p/0.3)) in the
\* onset phase, lies in [35, 44] in the peak phase and is 45 + int(25*r) in the
\* recovery phase, int being truncation towards zero of the double computed: the
\* floor of the exact value, or one less where the exact onset value is whole and
\* the double lies just under it; the batch has max(n, 0) records; the heart rate
\* is non-increasing over onset and non-decreasing over recovery.
C14_EpisodeTruncated ==
    Generated("generate_tpp_episode") =>
        /\ Len(GenBatch) = Max(EpisodeN, 0)
        /\ \A i \in 0..(EpisodeN - 1) :
            /\ InOnset(i) =>
                    \/ EpisodeHr(i) - 45 = (15 * EpisodeN - 50 * i) \div EpisodeN
                    \/ /\ i > 0
                       /\ (15 * EpisodeN - 50 * i) % EpisodeN = 0
                       /\ EpisodeHr(i) - 45 = (15 * EpisodeN - 50 * i) \div EpisodeN - 1
            /\ InPeak(i) => (EpisodeHr(i) >= 35 /\ EpisodeHr(i) <= 44)
            /\ InRecovery(i) =>
                    EpisodeHr(i) - 45 = (25 * (10 * i - 7 * EpisodeN)) \div (3 * EpisodeN)
        /\ EpisodeMonotone

C14_Witness ==
    /\ Generated("generate_tpp_episode")
    /\ GenArgs[2] = 120
    /\ Len(GenBatch) = 24
    /\ EpisodeHr(0) = 60
    /\ EpisodeHr(1) = 57
    /\ EpisodeHr(7) = 45
    /\ EpisodeHr(8) = 35
    /\ EpisodeHr(17) = 45
    /\ EpisodeHr(23) = 66

====
